---- MODULE Spec2Model ----
(***************************************************************************)
(* The task store of the task-manager example application.                 *)
(*                                                                         *)
(* The store is the `tasks` state of App (useState) or of TaskProvider     *)
(* (context).  addTask / deleteTask / toggleReminder are closures created  *)
(* by a render: they compute the next collection from the `tasks` value    *)
(* that render saw (`captured`) and hand it to setTasks.  setTasks         *)
(* installs the value and schedules a re-render; the re-render creates new *)
(* closures over the installed value.                                      *)
(***************************************************************************)
EXTENDS Integers, Sequences, FiniteSets, TLC

(* ---- bounds ---------------------------------------------------------- *)
\* ids are drawn from 1..MaxId (the code draws from 1..RandomRange)
MaxId == 3
\* number of addTask/deleteTask/toggleReminder calls in one run
MaxCalls == 2

\* Math.random() returns one of the fractions k / Resolution, k in
\* 0..Resolution-1
Resolution == 20000

(* ---- program constants ----------------------------------------------- *)
RandomRange == 10000

VARIABLES
    tasks,        \* the state value held by useState
    captured,     \* the `tasks` value bound in the handlers of the last render
    dirty,        \* setTasks was called since the last render: a re-render is scheduled
    version,      \* which stage of the application runs, see Versions
    seedPc,       \* "done" | "mount" | "fetching": position of the seeding effect
    showAddTask,  \* the state value of useState(false) in App
    showAdd,      \* the showAddTask value the last render saw
    text,         \* AddTaskForm state
    day,          \* AddTaskForm state
    reminder,     \* AddTaskForm state
    lastOp,       \* the last handler call or effect: [op, id, before, ret,
                  \* shown], before being the tasks value it found, ret the
                  \* value the call returned and, for a click of the header
                  \* button, shown the showAddTask value it found
    calls,        \* number of addTask/deleteTask/toggleReminder calls so far
    nextSerial,   \* insertion stamp of the next record that enters the store
    specified,    \* insertion stamps of the records whose reminder was true at
                  \* creation or that a toggleReminder call has flipped
    pathname,     \* location.pathname of the router
    route         \* the pathname the last render saw

vars == << tasks, captured, dirty, version, seedPc, showAddTask, showAdd,
           text, day, reminder, lastOp, calls, nextSerial, specified,
           pathname, route >>

\* what a call of a function whose body has no return statement returns:
\* no value (a returned value v is << v >>)
Undefined == << >>

(* ---- versions -------------------------------------------------------- *)
\* "app":     App holds the store, seeded by the useState literal
\* "fetch":   App holds the store and seeds it from an awaited fetch
\* "context": TaskProvider holds the store and seeds it in its mount effect
\* "memo":    as "context", Tasks renders through the useMemo sorted view
Versions == {"app", "fetch", "context", "memo"}

\* how the store of a version is seeded
seedMode(v) ==
    CASE v = "app" -> "literal"
      [] v = "fetch" -> "fetch"
      [] v \in {"context", "memo"} -> "mount"

\* whether Tasks sorts the list it renders
memoSort(v) == v = "memo"

\* whether App renders through <Routes> and Header shows the nav links: the
\* application of the last stage
routed(v) == v = "memo"

\* the paths with a <Route>
Paths == {"/", "/about"}

(* ---- data ------------------------------------------------------------ *)
\* values a user types into the form
Texts == {"", "A"}
Days == {"", "Mar 1st"}

\* task objects a consumer of the context passes to addTask: a new one, and
\* one that carries an id of its own
ContextTasks ==
    {[text |-> "", day |-> "", reminder |-> FALSE],
     [id |-> 3, text |-> "", day |-> "", reminder |-> FALSE]}

\* useState initial value of App
InitialTasks ==
    << [id |-> 1, text |-> "Doctor Appointment", day |-> "Feb 5th at 2:30pm",
        reminder |-> TRUE, serial |-> 1],
       [id |-> 2, text |-> "Meeting at School", day |-> "Feb 6th at 1:30pm",
        reminder |-> TRUE, serial |-> 2],
       [id |-> 3, text |-> "Grocery Shopping", day |-> "Feb 7th at 12:00pm",
        reminder |-> FALSE, serial |-> 3] >>

\* the list the seeding effect installs (without insertion stamps)
FetchedTasks ==
    << [id |-> 1, text |-> "Doctor Appointment", day |-> "Feb 5th at 2:30pm",
        reminder |-> TRUE],
       [id |-> 2, text |-> "Meeting at School", day |-> "Feb 6th at 1:30pm",
        reminder |-> TRUE] >>

\* records entering the store are stamped with the order of their insertion
Stamp(data, n) ==
    [i \in 1..Len(data) |->
        [id |-> data[i].id, text |-> data[i].text, day |-> data[i].day,
         reminder |-> data[i].reminder, serial |-> n + i - 1]]

\* Math.floor(Math.random() * 10000) + 1 for Math.random() = k / Resolution,
\* without the `+ 1`
randomIdFromZero(k) == (k * RandomRange) \div Resolution

\* Math.floor(Math.random() * 10000) + 1 for Math.random() = k / Resolution
randomId(k) == (k * RandomRange) \div Resolution + 1

\* the ids the calls of a run draw: the low end of the range of randomId
RandomIds == 1..(IF MaxId < RandomRange THEN MaxId ELSE RandomRange)

(* ---- pure functions -------------------------------------------------- *)
\* collation rank of the day strings that occur
DayRank(d) ==
    CASE d = "" -> 0
      [] d = "Feb 5th at 2:30pm" -> 1
      [] d = "Feb 6th at 1:30pm" -> 2
      [] d = "Feb 7th at 12:00pm" -> 3
      [] d = "Mar 1st" -> 4

\* a.localeCompare(b)
localeCompare(a, b) ==
    IF DayRank(a) < DayRank(b) THEN -1
    ELSE IF DayRank(a) > DayRank(b) THEN 1 ELSE 0

\* insert t behind every element that does not compare greater (stable)
RECURSIVE InsertByDay(_, _)
InsertByDay(t, s) ==
    IF s = << >> THEN << t >>
    ELSE IF localeCompare(Head(s).day, t.day) <= 0
         THEN << Head(s) >> \o InsertByDay(t, Tail(s))
         ELSE << t >> \o s

\* tasks.sort((a, b) => a.day.localeCompare(b.day)): sorts the array in place
RECURSIVE sortedTasks(_)
sortedTasks(ts) ==
    IF ts = << >> THEN << >>
    ELSE InsertByDay(ts[Len(ts)], sortedTasks(SubSeq(ts, 1, Len(ts) - 1)))

\* { id, ...task }: the properties of task are copied over the id written
\* before the spread, so an id of the task replaces the generated one
spreadOver(id, task) == IF "id" \in DOMAIN task THEN task.id ELSE id

\* { id, ...task } with the reminder switched on whatever the task says
newTaskReminderOn(id, task, n) ==
    [id |-> spreadOver(id, task), text |-> task.text, day |-> task.day,
     reminder |-> TRUE, serial |-> n]

\* const newTask = { id, ...task }
newTask(id, task, n) ==
    [id |-> spreadOver(id, task), text |-> task.text, day |-> task.day,
     reminder |-> task.reminder, serial |-> n]

\* [...tasks, newTask]
spreadAppend(ts, t) == Append(ts, t)

\* tasks.filter((task) => task.id !== id)
filterTasks(ts, id) == SelectSeq(ts, LAMBDA t : t.id # id)

\* tasks.map((task) => task.id === id ? { ...task, reminder: !task.reminder } : task)
mapToggle(ts, id) ==
    [i \in 1..Len(ts) |->
        IF ts[i].id = id THEN [ts[i] EXCEPT !.reminder = ~ts[i].reminder]
        ELSE ts[i]]

\* insertion stamps of the records of a list whose reminder is true
Reminding(ts) == {ts[i].serial : i \in {k \in 1..Len(ts) : ts[k].reminder}}

\* insertion stamps of the records of a list that have the given id
WithId(ts, id) == {ts[i].serial : i \in {k \in 1..Len(ts) : ts[k].id = id}}

\* what a render leaves in the state array: the sorted view sorts it in place
afterRender(ts) == IF memoSort(version) THEN sortedTasks(ts) ELSE ts

(* ---- what a render displays -------------------------------------------- *)
\* Header: <Button color={showAdd ? 'red' : 'green'}
\*                 text={showAdd ? 'Close' : 'Add'} />, showAdd being the
\* showAddTask value of the render
buttonText(showAddProp) == IF showAddProp THEN "Close" ELSE "Add"

buttonColor(showAddProp) == IF showAddProp THEN "red" ELSE "green"

\* App: {showAddTask && <AddTaskForm onAdd={addTask} />}
formRendered(showAddProp) == showAddProp

\* the title Header shows: App passes 'My Task Manager'; the later App
\* components pass none and Header.defaultProps gives 'Task Manager'
title(v) == IF v = "app" THEN "My Task Manager" ELSE "Task Manager"

\* the text shown for an empty list: a string literal of App, or of the
\* Tasks component that reads the context; the Tasks component with the
\* sorted view has none
emptyStateText(v) ==
    CASE v = "app" -> << "No tasks to show." >>
      [] v = "fetch" -> << "No Tasks To Show" >>
      [] v = "context" -> << "No tasks to show." >>
      [] v = "memo" -> << >>

\* Task: <h3>{task.text}</h3> and <p>{task.day}</p>, one pair per task
taskTexts(ts) ==
    [k \in 1..(2 * Len(ts)) |->
        IF k % 2 = 1 THEN ts[(k + 1) \div 2].text ELSE ts[k \div 2].day]

\* Tasks, or the conditional of App around it
tasksTexts(v, ts) == IF Len(ts) = 0 THEN emptyStateText(v) ELSE taskTexts(ts)

\* the <label>s of AddTaskForm
FormTexts == << "Task", "Day & Time", "Set Reminder" >>

\* About: <h2> and <p>
AboutTexts == << "About This App", "Version 1.0.0" >>

\* Footer: <p> and <Link> (the copyright sign is written (c))
FooterTexts == << "(c) 2023 Task Manager App", "About" >>

\* the text of every element on the page, in document order, for the
\* tasks, showAdd and pathname a render saw
screenTexts(v, ts, showAddProp, path) ==
    << title(v) >>
    \o (IF path = "/" THEN << buttonText(showAddProp) >> ELSE << >>)
    \o (IF routed(v) THEN << "Home", "About" >> ELSE << >>)
    \o (IF path = "/" /\ formRendered(showAddProp) THEN FormTexts ELSE << >>)
    \o (IF path = "/" THEN tasksTexts(v, ts) ELSE << >>)
    \o (IF path = "/about" THEN AboutTexts ELSE << >>)
    \o (IF routed(v) THEN FooterTexts ELSE << >>)

\* the strings of the pages that /Task Manager/i matches
matchesTaskManager(s) ==
    s \in {"My Task Manager", "Task Manager", "(c) 2023 Task Manager App"}

\* screen.getByText(/Task Manager/i): the matching elements; the query
\* returns the element when there is exactly one and throws otherwise
getByTextTaskManager(texts) ==
    {i \in 1..Len(texts) : matchesTaskManager(texts[i])}

(* ---- initial state ---------------------------------------------------- *)
Init ==
    /\ version \in Versions
    /\ tasks = IF seedMode(version) = "mount" THEN << >> ELSE InitialTasks
    /\ captured = tasks
    /\ dirty = FALSE
    /\ seedPc = CASE seedMode(version) = "literal" -> "done"
                  [] seedMode(version) = "mount" -> "mount"
                  [] seedMode(version) = "fetch" -> "fetching"
    /\ showAddTask = FALSE
    /\ showAdd = FALSE
    /\ text = ""
    /\ day = ""
    /\ reminder = FALSE
    /\ lastOp = [op |-> "init", id |-> 0, before |-> tasks, ret |-> Undefined,
                 shown |-> FALSE]
    /\ calls = 0
    /\ nextSerial = IF seedMode(version) = "mount" THEN 1 ELSE Len(InitialTasks) + 1
    /\ specified = Reminding(tasks)
    /\ pathname = "/"
    /\ route = "/"

(* ---- handlers --------------------------------------------------------- *)
\* the handlers of the last render can be called once the mount effect ran
CanCall == seedPc # "mount" /\ calls < MaxCalls /\ route = "/"

\* setTasks(value): installs the value and schedules a re-render
setTasks(value) ==
    /\ tasks' = value
    /\ dirty' = TRUE

addTask(task, id) ==
    /\ setTasks(spreadAppend(captured, newTask(id, task, nextSerial)))
    /\ nextSerial' = nextSerial + 1
    /\ calls' = calls + 1
    /\ lastOp' = [op |-> "add", id |-> id, before |-> tasks, ret |-> Undefined,
                 shown |-> FALSE]
    /\ specified' = IF task.reminder THEN specified \cup {nextSerial} ELSE specified
    /\ UNCHANGED << pathname, route >>

deleteTask(id) ==
    /\ CanCall
    /\ setTasks(filterTasks(captured, id))
    /\ calls' = calls + 1
    /\ lastOp' = [op |-> "delete", id |-> id, before |-> tasks, ret |-> Undefined,
                 shown |-> FALSE]
    /\ UNCHANGED << captured, version, seedPc, showAddTask, showAdd,
                    text, day, reminder, nextSerial,
                    specified, pathname, route >>

toggleReminder(id) ==
    /\ CanCall
    /\ setTasks(mapToggle(captured, id))
    /\ calls' = calls + 1
    /\ lastOp' = [op |-> "toggle", id |-> id, before |-> tasks, ret |-> Undefined,
                 shown |-> FALSE]
    /\ specified' = specified \cup WithId(captured, id)
    /\ UNCHANGED << captured, version, seedPc, showAddTask, showAdd,
                    text, day, reminder, nextSerial, pathname, route >>

\* the Header button without the `location.pathname === '/'` condition
onAddOnEveryRoute ==
    /\ seedPc # "mount"
    /\ showAddTask' = ~showAdd
    /\ dirty' = TRUE
    /\ lastOp' = [op |-> "click", id |-> 0, before |-> tasks, ret |-> Undefined,
                 shown |-> showAddTask]
    /\ UNCHANGED << tasks, captured, version, seedPc, showAdd, text, day,
                    reminder, calls, nextSerial, specified, pathname, route >>

\* Header button, rendered when the render saw the path '/':
\* onAdd={() => setShowAddTask(!showAddTask)}
onAdd ==
    /\ seedPc # "mount"
    /\ route = "/"
    /\ showAddTask' = ~showAdd
    /\ dirty' = TRUE
    /\ lastOp' = [op |-> "click", id |-> 0, before |-> tasks, ret |-> Undefined,
                 shown |-> showAddTask]
    /\ UNCHANGED << tasks, captured, version, seedPc, showAdd, text, day,
                    reminder, calls, nextSerial, specified, pathname, route >>

\* AddTaskForm: the three controlled inputs (the form is mounted while the
\* last render saw showAddTask true)
setText(v) ==
    /\ showAdd /\ route = "/"
    /\ text # v
    /\ text' = v
    /\ UNCHANGED << tasks, captured, dirty, version, seedPc, showAddTask,
                    showAdd, day, reminder, lastOp, calls, nextSerial,
                    specified, pathname, route >>

setDay(v) ==
    /\ showAdd /\ route = "/"
    /\ day # v
    /\ day' = v
    /\ UNCHANGED << tasks, captured, dirty, version, seedPc, showAddTask,
                    showAdd, text, reminder, lastOp, calls, nextSerial,
                    specified, pathname, route >>

setReminder(v) ==
    /\ showAdd /\ route = "/"
    /\ reminder # v
    /\ reminder' = v
    /\ UNCHANGED << tasks, captured, dirty, version, seedPc, showAddTask,
                    showAdd, text, day, lastOp, calls, nextSerial,
                    specified, pathname, route >>

\* onSubmit that, on empty text, alerts and falls through to the resets
\* instead of returning
onSubmitRejectedReset ==
    /\ showAdd /\ route = "/"
    /\ text = ""
    /\ day' = ""
    /\ reminder' = FALSE
    /\ lastOp' = [op |-> "alert", id |-> 0, before |-> tasks, ret |-> Undefined,
                 shown |-> FALSE]
    /\ UNCHANGED << tasks, captured, dirty, version, seedPc, showAddTask,
                    showAdd, text, calls, nextSerial, specified, pathname,
                    route >>

\* AddTaskForm.onSubmit, empty text: alert('Please add a task'); return
onSubmitRejected ==
    /\ showAdd /\ route = "/"
    /\ text = ""
    /\ lastOp' = [op |-> "alert", id |-> 0, before |-> tasks, ret |-> Undefined,
                 shown |-> FALSE]
    /\ UNCHANGED << tasks, captured, dirty, version, seedPc, showAddTask,
                    showAdd, text, day, reminder, calls, nextSerial,
                    specified, pathname, route >>

\* onSubmit without the `if (!text)` check
onSubmitUnchecked(id) ==
    /\ showAdd /\ route = "/"
    /\ CanCall
    /\ addTask([text |-> text, day |-> day, reminder |-> reminder], id)
    /\ text' = ""
    /\ day' = ""
    /\ reminder' = FALSE
    /\ UNCHANGED << captured, version, seedPc, showAddTask, showAdd >>

\* AddTaskForm.onSubmit, non-empty text: onAdd({ text, day, reminder }), reset
onSubmitAccepted(id) ==
    /\ showAdd /\ route = "/"
    /\ CanCall
    /\ text # ""
    /\ addTask([text |-> text, day |-> day, reminder |-> reminder], id)
    /\ text' = ""
    /\ day' = ""
    /\ reminder' = FALSE
    /\ UNCHANGED << captured, version, seedPc, showAddTask, showAdd >>

onSubmit == onSubmitRejected \/ \E id \in RandomIds : onSubmitAccepted(id)

\* value.addTask of the TaskContext, called by a consumer with a task object
\* of its own: the function takes any task
contextAddTask(task, id) ==
    /\ seedMode(version) = "mount"
    /\ CanCall
    /\ setTasks(spreadAppend(captured, newTask(id, task, nextSerial)))
    /\ nextSerial' = nextSerial + 1
    /\ calls' = calls + 1
    /\ lastOp' = [op |-> "contextAdd", id |-> id, before |-> tasks, ret |-> Undefined,
                 shown |-> FALSE]
    /\ specified' = IF task.reminder THEN specified \cup {nextSerial} ELSE specified
    /\ UNCHANGED << captured, version, seedPc, showAddTask, showAdd,
                    text, day, reminder, pathname, route >>

(* ---- navigation ------------------------------------------------------- *)
\* <Link to="/">Home</Link> | <Link to="/about">About</Link> in Header: the
\* router takes the new location and schedules a re-render
navigate(to) ==
    /\ routed(version)
    /\ seedPc # "mount"
    /\ pathname # to
    /\ pathname' = to
    /\ dirty' = TRUE
    /\ UNCHANGED << tasks, captured, version, seedPc, showAddTask, showAdd,
                    text, day, reminder, lastOp, calls, nextSerial, specified,
                    route >>

(* ---- seeding effects -------------------------------------------------- *)
\* TaskProvider: useEffect(() => { fetchTasks() }, []) with no await inside:
\* runs after the first render, before any handler can be called
fetchTasksMount ==
    /\ seedPc = "mount"
    /\ setTasks(Stamp(FetchedTasks, nextSerial))
    /\ nextSerial' = nextSerial + Len(FetchedTasks)
    /\ seedPc' = "done"
    /\ lastOp' = [op |-> "seed", id |-> 0, before |-> tasks, ret |-> Undefined,
                 shown |-> FALSE]
    /\ specified' = specified \cup Reminding(Stamp(FetchedTasks, nextSerial))
    /\ UNCHANGED << captured, version, showAddTask, showAdd, text, day,
                    reminder, calls, pathname, route >>

\* App: the continuation of fetchTasks after the awaited fetch: setTasks(data)
fetchTasksResolve ==
    /\ seedPc = "fetching"
    /\ setTasks(Stamp(FetchedTasks, nextSerial))
    /\ nextSerial' = nextSerial + Len(FetchedTasks)
    /\ seedPc' = "done"
    /\ lastOp' = [op |-> "seed", id |-> 0, before |-> tasks, ret |-> Undefined,
                 shown |-> FALSE]
    /\ specified' = specified \cup Reminding(Stamp(FetchedTasks, nextSerial))
    /\ UNCHANGED << captured, version, showAddTask, showAdd, text, day,
                    reminder, calls, pathname, route >>

(* ---- render ----------------------------------------------------------- *)
\* the re-render scheduled by a state setter or by the router: Tasks, when
\* the route shows it, reads (and, with the sorted view, sorts) the state
\* array; the new handlers close over the current state; AddTaskForm is
\* unmounted, and loses its state, when showAddTask is false or the route
\* does not show it
Render ==
    /\ dirty
    /\ tasks' = IF pathname = "/" THEN afterRender(tasks) ELSE tasks
    /\ captured' = tasks'
    /\ showAdd' = showAddTask
    /\ route' = pathname
    /\ dirty' = FALSE
    /\ IF showAddTask /\ pathname = "/"
       THEN UNCHANGED << text, day, reminder >>
       ELSE text' = "" /\ day' = "" /\ reminder' = FALSE
    /\ UNCHANGED << version, seedPc, showAddTask, lastOp, calls, nextSerial,
                    specified, pathname >>

Next ==
    \/ onAdd
    \/ \E v \in Texts : setText(v)
    \/ \E v \in Days : setDay(v)
    \/ \E v \in BOOLEAN : setReminder(v)
    \/ onSubmit
    \/ \E task \in ContextTasks : \E id \in RandomIds : contextAddTask(task, id)
    \/ \E id \in RandomIds : deleteTask(id)
    \/ \E id \in RandomIds : toggleReminder(id)
    \/ \E to \in Paths : navigate(to)
    \/ fetchTasksMount
    \/ fetchTasksResolve
    \/ Render

Spec == Init /\ [][Next]_vars

(* ---- the id generator on its own --------------------------------------- *)
\* one evaluation of Math.floor(Math.random() * 10000) + 1 in addTask, for
\* any value Math.random() can return
drawId(k) ==
    /\ lastOp.op = "init"
    /\ lastOp' = [op |-> "random", id |-> randomId(k), before |-> tasks,
                 ret |-> Undefined, shown |-> FALSE]
    /\ UNCHANGED << tasks, captured, dirty, version, seedPc, showAddTask,
                    showAdd, text, day, reminder, calls, nextSerial,
                    specified, pathname, route >>

NextRandom == \E k \in 0..(Resolution - 1) : drawId(k)

SpecRandom == Init /\ [][NextRandom]_vars

(* ---- step and state vocabulary of the properties ----------------------- *)
\* the step is a call of addTask / deleteTask / toggleReminder
IsCall(op) == calls' = calls + 1 /\ lastOp'.op = op

\* the step is a submit of the form (accepted or rejected)
IsSubmit == lastOp' # lastOp /\ lastOp'.op \in {"add", "alert"}

\* the step is a re-render
IsRender == dirty /\ ~dirty'

Ids(ts) == {ts[i].id : i \in 1..Len(ts)}

UniqueIds(ts) == \A i, j \in 1..Len(ts) : i # j => ts[i].id # ts[j].id

InsertionOrdered(ts) ==
    \A i, j \in 1..Len(ts) : i < j => ts[i].serial < ts[j].serial

\* number of records the seeding has put into the store so far
Seeded ==
    CASE version = "app" -> Len(InitialTasks)
      [] version = "fetch" ->
            IF seedPc = "done" THEN Len(InitialTasks) + Len(FetchedTasks)
            ELSE Len(InitialTasks)
      [] OTHER -> IF seedPc = "done" THEN Len(FetchedTasks) ELSE 0

\* number of addTask calls so far
Adds == nextSerial - 1 - Seeded

(* ---- C1 ---------------------------------------------------------------- *)
\* C1: in every reachable state of the store no two tasks present in the
\* collection have the same id.
C1_UniqueIds == UniqueIds(tasks)

(* ---- C2 ---------------------------------------------------------------- *)
\* C2: after a sequence of add calls with non-empty text and no other call,
\* started from the seeded list, the length of the list is the seeded length
\* plus the number of adds.
C2_AddsGrowByOne ==
    (/\ seedPc # "mount"
     /\ ~(version = "fetch" /\ seedPc = "done")
     /\ calls = Adds)
    => Len(tasks) = Seeded + Adds

(* ---- C3 ---------------------------------------------------------------- *)
\* C3: a submit with empty text raises the alert, does not call addTask and
\* leaves the task list unchanged.
C3_EmptySubmitRejected ==
    [][ (text = "" /\ IsSubmit) =>
            /\ lastOp'.op = "alert"
            /\ calls' = calls
            /\ nextSerial' = nextSerial
            /\ tasks' = tasks ]_vars

\* the user entered a day, left the text empty and submitted
C3_Witness ==
    /\ lastOp.op = "alert"
    /\ showAdd
    /\ text = ""
    /\ day = "Mar 1st"
    /\ tasks = lastOp.before

(* ---- C4 ---------------------------------------------------------------- *)
\* C4: every call applies its operation to the collection left by the
\* previous operation: an add appends to it, a delete filters it, a toggle
\* maps it.
C4_CallsApplyInOrder ==
    [][ /\ IsCall("add") =>
            /\ Len(tasks') = Len(tasks) + 1
            /\ tasks' = spreadAppend(tasks, tasks'[Len(tasks')])
        /\ IsCall("delete") => tasks' = filterTasks(tasks, lastOp'.id)
        /\ IsCall("toggle") => tasks' = mapToggle(tasks, lastOp'.id) ]_vars

(* ---- C5 ---------------------------------------------------------------- *)
\* C5: the seed is installed before any add/delete/toggle call: no seeding
\* step happens after a call.
C5_SeedBeforeCalls == [][ lastOp'.op = "seed" /\ lastOp' # lastOp => calls = 0 ]_vars

(* ---- C6 ---------------------------------------------------------------- *)
\* C6: in every reachable state the collection lists the surviving tasks in
\* the order in which they were inserted.
C6_InsertionOrder == InsertionOrdered(tasks)

(* ---- C7 ---------------------------------------------------------------- *)
\* C7: rendering never changes the stored collection.
C7_RenderReadsOnly == [][ IsRender => tasks' = tasks ]_vars

(* ---- C8 ---------------------------------------------------------------- *)
\* C8: two toggleReminder(id) calls in succession leave the collection as it
\* was before the first of them.
C8_ToggleTwice ==
    [][ (/\ IsCall("toggle")
         /\ lastOp.op = "toggle"
         /\ lastOp.id = lastOp'.id) => tasks' = lastOp.before ]_vars

(* ---- C9 ---------------------------------------------------------------- *)
\* C9: a toggleReminder(id) call with id present flips the reminder of
\* exactly one task, the one with that id, and changes nothing else.
C9_ToggleFlipsOne ==
    [][ (IsCall("toggle") /\ lastOp'.id \in Ids(tasks)) =>
            /\ Len(tasks') = Len(tasks)
            /\ Cardinality({i \in 1..Len(tasks) : tasks'[i] # tasks[i]}) = 1
            /\ \A i \in 1..Len(tasks) :
                  tasks'[i] # tasks[i] =>
                      /\ tasks[i].id = lastOp'.id
                      /\ tasks'[i] = [tasks[i] EXCEPT !.reminder = ~tasks[i].reminder]
      ]_vars

(* ---- C10 --------------------------------------------------------------- *)
\* C10: a deleteTask(id) call with id present shrinks the collection by
\* exactly one, leaves no task with that id and keeps every other task.
C10_DeleteRemovesOne ==
    [][ (IsCall("delete") /\ lastOp'.id \in Ids(tasks)) =>
            /\ Len(tasks') = Len(tasks) - 1
            /\ lastOp'.id \notin Ids(tasks')
            /\ tasks' = SelectSeq(tasks, LAMBDA t : t.id # lastOp'.id) ]_vars

(* ---- C11 --------------------------------------------------------------- *)
\* C11: a deleteTask(id) call with id not in the collection leaves the
\* collection unchanged, and a deleteTask(id) call that follows a
\* deleteTask(id) call leaves it as the first call left it.
C11_DeleteAbsentIdempotent ==
    [][ /\ (IsCall("delete") /\ lastOp'.id \notin Ids(tasks)) => tasks' = tasks
        /\ (/\ IsCall("delete")
            /\ lastOp.op = "delete"
            /\ lastOp.id = lastOp'.id) => tasks' = tasks ]_vars

(* ---- C12 --------------------------------------------------------------- *)
\* C12: a toggleReminder(id) or deleteTask(id) call with id not in the
\* collection leaves the collection unchanged (length, order, every field).
C12_AbsentIdNoop ==
    [][ ((IsCall("toggle") \/ IsCall("delete")) /\ lastOp'.id \notin Ids(tasks))
            => tasks' = tasks ]_vars

(* ---- C13 --------------------------------------------------------------- *)
\* the records (by insertion stamp) of a collection
Serials(ts) == {ts[i].serial : i \in 1..Len(ts)}

\* C13: a record that a deleteTask call removed is never put back by a later
\* toggleReminder or deleteTask call.
C13_RemovedStaysRemoved ==
    [][ (IsCall("toggle") \/ IsCall("delete"))
            => Serials(tasks') \subseteq Serials(tasks) ]_vars

(* ---- C14 --------------------------------------------------------------- *)
\* C14: for every record that stays in the collection over a step, id, text
\* and day are unchanged, and the reminder changes only in a toggleReminder
\* call whose argument is the record's id.
C14_OnlyToggleMutates ==
    [][ \A i \in 1..Len(tasks) : \A j \in 1..Len(tasks') :
            tasks[i].serial = tasks'[j].serial =>
                /\ tasks'[j].id = tasks[i].id
                /\ tasks'[j].text = tasks[i].text
                /\ tasks'[j].day = tasks[i].day
                /\ tasks'[j].reminder # tasks[i].reminder =>
                        (IsCall("toggle") /\ lastOp'.id = tasks[i].id) ]_vars

(* ---- C15 --------------------------------------------------------------- *)
\* the record a submit of the current form fields creates
SubmittedRecord ==
    [id |-> lastOp'.id, text |-> text, day |-> day, reminder |-> reminder,
     serial |-> nextSerial]

\* C15: a successful add appends exactly one record, holding the submitted
\* text, day and reminder and the id drawn by the call, behind the records
\* present before the call, which stay as they are, and returns that record.
C15_AddAppendsSubmitted ==
    [][ IsCall("add") =>
            /\ tasks' = Append(tasks, SubmittedRecord)
            /\ lastOp'.ret = << SubmittedRecord >> ]_vars

(* ---- C16 --------------------------------------------------------------- *)
\* the seeded collection of the scenario: task 1 and task 2, both with
\* reminder true
IsSeedOfTwo(ts) == \E n \in 1..nextSerial : ts = Stamp(FetchedTasks, n)

\* C16: on a store seeded with task 1 and task 2, toggleReminder(1) as the
\* first call makes the reminder of task 1 false and leaves task 2 as it
\* is; deleteTask(2) as the following call leaves exactly task 1 with
\* reminder false and the same text and day.
C16_Scenario ==
    [][ /\ (/\ IsCall("toggle") /\ lastOp'.id = 1
            /\ lastOp.op = "seed" /\ calls = 0) =>
                tasks' = << [tasks[1] EXCEPT !.reminder = FALSE], tasks[2] >>
        /\ (/\ IsCall("delete") /\ lastOp'.id = 2
            /\ lastOp.op = "toggle" /\ lastOp.id = 1 /\ calls = 1
            /\ version # "app" /\ IsSeedOfTwo(lastOp.before)) =>
                tasks' = << [lastOp.before[1] EXCEPT !.reminder = FALSE] >>
      ]_vars

(* ---- C17 --------------------------------------------------------------- *)
\* C17: every task in the collection has non-empty text.
C17_TextNonEmpty == \A i \in 1..Len(tasks) : tasks[i].text # ""

(* ---- C18 --------------------------------------------------------------- *)
\* C18: the re-render a change schedules runs before the next call: whenever
\* an addTask/deleteTask/toggleReminder call is made, the list the handlers
\* were rendered with is the stored one.
C18_RenderedBeforeNextCall ==
    [][ calls' = calls + 1 => captured = tasks ]_vars

(* ---- C19 --------------------------------------------------------------- *)
\* the step changes the day or the reminder field of the form and nothing
\* else: the user typed a day or ticked the box
IsUserInput ==
    /\ showAdd
    /\ UNCHANGED << tasks, captured, dirty, version, seedPc, showAddTask,
                    showAdd, text, lastOp, calls, nextSerial, specified,
                    pathname, route >>

\* C19: the form starts, and is left by every successful submit, with day ""
\* and reminder false, and only the user changes those fields; the record a
\* submit creates takes its day and reminder from the fields, so that a task
\* added without a day has day "" and a task added without ticking the box
\* has reminder false; and the reminder of a stored task is true only if it
\* was true at creation or a toggleReminder call has flipped the task.
C19_Defaults ==
    [][ /\ (showAdd' /\ ~showAdd) => (day' = "" /\ reminder' = FALSE)
        /\ IsCall("add") =>
              /\ tasks'[Len(tasks')].day = day
              /\ tasks'[Len(tasks')].reminder = reminder
              /\ day' = ""
              /\ reminder' = FALSE
        /\ (day' # day /\ day' # "") => IsUserInput
        /\ (reminder' # reminder /\ reminder') => IsUserInput
        /\ Reminding(tasks') \subseteq specified' ]_vars

\* a task was added through a form whose day and reminder fields the user
\* had left alone
C19_Witness ==
    /\ lastOp.op = "add"
    /\ Len(tasks) > 0
    /\ tasks[Len(tasks)].serial = nextSerial - 1
    /\ tasks[Len(tasks)].text = "A"
    /\ tasks[Len(tasks)].day = ""
    /\ tasks[Len(tasks)].reminder = FALSE

(* ---- C20 --------------------------------------------------------------- *)
\* the step is a click on the header button
IsClick == lastOp'.op = "click" /\ lastOp' # lastOp

screen == screenTexts(version, captured, showAdd, route)

\* C21: in every reachable state the page shows the header title, the title
\* matches /Task Manager/i, and getByText(/Task Manager/i) finds exactly one
\* element, the title.
C21_TitleFound ==
    /\ screen[1] = title(version)
    /\ matchesTaskManager(title(version))
    /\ getByTextTaskManager(screen) = {1}

(* ---- C22 --------------------------------------------------------------- *)
\* some element of the page has the text s
Has(texts, s) == \E i \in 1..Len(texts) : texts[i] = s

\* what the page of the last render shows on each route
ShownByRoute ==
    LET page == screen IN
    /\ route = "/about" =>
          /\ ~Has(page, "Add") /\ ~Has(page, "Close")
          /\ \A i \in 1..Len(FormTexts) : ~Has(page, FormTexts[i])
          /\ \A i \in 1..Len(captured) :
                captured[i].text # "" => ~Has(page, captured[i].text)
    /\ route = "/" =>
          /\ Has(page, buttonText(showAdd))
          /\ \A i \in 1..Len(FormTexts) : Has(page, FormTexts[i]) <=> showAdd
          /\ \A i \in 1..Len(captured) : Has(page, captured[i].text)

\* C22: the Add/Close button, the form and the task list are on the page
\* only when it was rendered for the path '/' (the form only with
\* showAddTask true), from the first render on; on the page rendered for
\* '/about' no click on the button, no input, no submit and no
\* addTask/deleteTask/toggleReminder call happens; and a navigation leaves
\* the task collection as it is.
C22_RouteConditional ==
    /\ ShownByRoute
    /\ [][ /\ IsRender => ShownByRoute'
           /\ IsClick => route = "/"
           /\ calls' = calls + 1 => route = "/"
           /\ IsSubmit => (route = "/" /\ showAdd)
           /\ ((text' # text \/ day' # day \/ reminder' # reminder) /\ ~IsRender)
                  => (route = "/" /\ showAdd)
           /\ pathname' # pathname => tasks' = tasks ]_vars

\* the user deleted a task, opened the form and went to the About page
C22_Witness ==
    /\ routed(version)
    /\ route = "/about"
    /\ pathname = "/about"
    /\ ~dirty
    /\ showAddTask
    /\ lastOp.op = "click"
    /\ calls = 1
    /\ Len(tasks) = 1

(* ---- C23 --------------------------------------------------------------- *)
\* the page holds one Task element per task of ts, in the order of ts
ShowsTasks(page, ts) ==
    \E k \in 0..Len(page) :
        /\ k + 2 * Len(ts) <= Len(page)
        /\ SubSeq(page, k + 1, k + 2 * Len(ts)) = taskTexts(ts)

\* C23: every render of the task list shows 'No tasks to show.' exactly when
\* the collection is empty and otherwise one Task element per stored task,
\* in collection order; a deleteTask call for the only task of the
\* collection leaves it empty, and an add leaves it non-empty.
C23_EmptyState ==
    [][ /\ (IsRender /\ route' = "/") =>
              /\ Has(screen', "No tasks to show.") <=> (Len(tasks') = 0)
              /\ ShowsTasks(screen', tasks')
        /\ (IsCall("delete") /\ Len(tasks) = 1 /\ lastOp'.id = tasks[1].id)
              => Len(tasks') = 0
        /\ (IsCall("add") \/ IsCall("contextAdd")) => Len(tasks') > 0 ]_vars

(* ---- C24 --------------------------------------------------------------- *)
\* C24: a submit with non-empty text calls addTask exactly once, with the
\* text, day and reminder of the fields, and leaves the fields at '', '' and
\* false; a submit with empty text calls nothing and leaves the day and
\* reminder fields (and the text) as the user entered them.
C24_SubmitResets ==
    [][ /\ (IsSubmit /\ text # "") =>
              /\ IsCall("add")
              /\ nextSerial' = nextSerial + 1
              /\ tasks'[Len(tasks')].serial = nextSerial
              /\ tasks'[Len(tasks')].text = text
              /\ tasks'[Len(tasks')].day = day
              /\ tasks'[Len(tasks')].reminder = reminder
              /\ text' = "" /\ day' = "" /\ reminder' = FALSE
        /\ (IsSubmit /\ text = "") =>
              /\ calls' = calls
              /\ nextSerial' = nextSerial
              /\ text' = text /\ day' = day /\ reminder' = reminder ]_vars

\* a task with a day and a reminder was submitted and the form is clean
C24_Witness ==
    /\ lastOp.op = "add"
    /\ showAdd
    /\ dirty
    /\ text = "" /\ day = "" /\ ~reminder
    /\ Len(tasks) > 0
    /\ tasks[Len(tasks)].serial = nextSerial - 1
    /\ tasks[Len(tasks)].day = "Mar 1st"
    /\ tasks[Len(tasks)].reminder

(* ---- C25 --------------------------------------------------------------- *)
\* C25: the record an addTask call stores has the id the call generated,
\* whatever task object the caller passed.
C25_StoredIdIsGenerated ==
    [][ (IsCall("add") \/ IsCall("contextAdd")) =>
            tasks'[Len(tasks')].id = lastOp'.id ]_vars

(* ---- C26 --------------------------------------------------------------- *)
\* C26: every id Math.floor(Math.random() * 10000) + 1 yields is an integer
\* from 1 to 10000, so that no more than 10000 distinct ids exist; the ids
\* of the seeded tasks are among the values it yields.
C26_IdRange ==
    lastOp.op = "random" =>
        /\ lastOp.id \in Int
        /\ 1 <= lastOp.id
        /\ lastOp.id <= RandomRange
        /\ Cardinality(1..RandomRange) = 10000

\* the generator yields the id of the third seeded task
C26_Witness ==
    /\ lastOp.op = "random"
    /\ version = "app"
    /\ lastOp.id \in Ids(tasks)
    /\ lastOp.id = tasks[Len(tasks)].id

(* ---- C27 --------------------------------------------------------------- *)
\* C27: a deleteTask(id) or toggleReminder(id) call with id not in the
\* collection, made on a current render, installs no new value and
\* schedules no re-render.
C27_NoChangeNoNotify ==
    [][ (/\ IsCall("delete") \/ IsCall("toggle")
         /\ lastOp'.id \notin Ids(tasks)
         /\ ~dirty)
            => (tasks' = tasks /\ ~dirty') ]_vars

====
